---- MODULE Spec2Model ----
(***************************************************************************)
(* llamate: the serve command (src/llamate/cli/commands/serve.py).         *)
(*                                                                         *)
(* serve_command is the Supervisor: it renders the llama-swap document,    *)
(* spawns llama-swap as a child, starts one monitor_config_files thread    *)
(* (the Watcher) per child, waits for the child and decides from its exit  *)
(* status whether to loop.  A Watcher polls the modification times of the  *)
(* rendered document and of the per-model files and calls                  *)
(* terminate_process on its child at the first change it sees.             *)
(*                                                                         *)
(* An optional value (Python's None, a file that may be absent, an exit    *)
(* status not yet known) is a set with at most one element: {} is None.    *)
(* The POSIX branch of terminate_process is the one modelled.              *)
(*                                                                         *)
(* A child and the Watcher thread started for it share a slot: "cur" is    *)
(* the child serve_command holds in its variable process, "old" the one    *)
(* before it, whose Popen object only its own Watcher thread still holds.  *)
(* Two Watcher threads are followed, the current one and the one before   *)
(* it: a child is spawned once the Watcher of the child before the         *)
(* previous one has ended (a Watcher told to stop ends within one poll).   *)
(*                                                                         *)
(* The settings and the model store (src/llamate/core/config.py,           *)
(* core/model.py, cli/commands/model.py, services/llama_swap.py) come      *)
(* after the serve command.  SpecG applies generate_config and             *)
(* load_global_config to given settings and models; SpecS runs one         *)
(* command of the model store (model add, model copy, model remove, model  *)
(* list) or save_llama_swap_config on a given disk; SpecQ runs model add,  *)
(* model copy and model remove one after another on the store llamate init *)
(* leaves.  SpecK is the serve command with a single per-model file being  *)
(* rewritten and the operator's Ctrl-C.  A Python dict whose order         *)
(* can be seen (the models handed to generate_config, the args of a model) *)
(* is a sequence of <<key, value>> pairs; any other dict is a function.    *)
(***************************************************************************)
EXTENDS Integers, Sequences, FiniteSets, TLC

\* ---------------------------------------------------------------- bounds
MaxTime == 1
MaxFsOps == 2
MaxServeFsOps == 1

\* ------------------------------------------------------ program constants
SIGTERM_EXIT == 143
KilledBySIGTERM == -15
KilledBySIGKILL == -9

Slots == {"cur", "old"}
Threads == {"sup"} \cup Slots

ModelNames == {"a", "b"}
MTimes == 0..MaxTime
\* time.time() at a write is never the epoch
WriteTimes == 1..MaxTime
Opt(S) == {{}} \cup {{x} : x \in S}

NoModels == [f \in ModelNames |-> {}]

VARIABLES
  mainFile,         \* LLAMA_SWAP_CONFIG_FILE on disk: {} absent, {t} present with mtime t
  docState,         \* its content: "none" | "rendered" | "foreign" | "invalid"
  dirty,            \* a per-model file changed since the document was last rendered
  dirExists,        \* MODELS_DIR exists
  files,            \* MODELS_DIR/*.yaml: name -> {} | {mtime}
  passthrough,      \* the global settings hold a key generate_config copies
  fsOps,            \* number of changes other processes made on disk
  pc,               \* position of the Supervisor (pc["sup"]) and of each Watcher thread
  process,          \* serve_command's variable process: "unbound" before the first Popen, then "cur"
  supExit,          \* why serve_command left its loop: "none" | "fatal" | "interrupt" | "error"
  reported,         \* the exit code printed at line 216, {} when none
  child,            \* per slot: "none" | "running" | "exited"
  sig,              \* per slot: pending signal "none" | "term" | "kill"
  status,           \* per slot: exit status, {} while not exited
  reaped,           \* per slot: Popen.returncode has been set (the pid is gone)
  stop_event,       \* per slot: the threading.Event of line 199
  main_config_time, \* per Watcher: baseline of the main file, {} is None
  model_files,      \* per Watcher: baseline of the per-model files
  w_msg,            \* per Watcher: what the current iteration printed
  termReqs,         \* per Watcher: number of terminate_process calls it made
  tp_log,           \* per thread: the calls its terminate_process made, with their outcome
  home,             \* "absent": no LLAMATE_HOME | "home": it exists | "models": MODELS_DIR too
  globalFile,       \* LLAMATE_CONFIG_FILE: {} absent, {dict} the mapping stored in it
  modelStore,       \* MODELS_DIR/<name>.yaml: name -> content, for the files that exist
  swapFile,         \* what save_llama_swap_config wrote: {} nothing, {dict} the document
  call,             \* the function or command applied, with its arguments
  ret,              \* its outcome: the value returned or the exception raised
  runs              \* the number of commands of the model store run so far

storeVars == <<home, globalFile, modelStore, swapFile, call, ret, runs>>
fsVars == <<mainFile, docState, dirty, dirExists, files, passthrough, fsOps, storeVars>>
supVars == <<process, supExit, reported>>
childVars == <<child, sig, status, reaped>>
locals == <<stop_event, main_config_time, model_files, w_msg>>
watchVars == <<locals, termReqs>>
vars == <<fsVars, pc, supVars, childVars, watchVars, tp_log>>

\* The serve process is alive: daemon threads end with it.
Serving == pc["sup"] # "done"

\* ------------------------------------------------------------------ Init
\* A dict with no key.
EmptyDict == [k \in {} |-> {}]

\* No function or command of the model store is being applied.
NoCall == [op |-> "none"]
NotDone == [done |-> FALSE]

\* serve is not running: the settings and the model store are looked at alone.
StoreIdle ==
  /\ home = "home"
  /\ globalFile = {}
  /\ modelStore = EmptyDict
  /\ swapFile = {}
  /\ call = NoCall
  /\ ret = NotDone
  /\ runs = 0

\* Everything but the disk and the position of the threads.
InitRest ==
  /\ dirty = FALSE
  /\ docState = IF mainFile = {} THEN "none" ELSE "foreign"
  /\ fsOps = 0
  /\ supExit = "none"
  /\ reported = {}
  /\ sig = [p \in Slots |-> "none"]
  /\ status = [p \in Slots |-> {}]
  /\ reaped = [p \in Slots |-> FALSE]
  /\ stop_event = [i \in Slots |-> FALSE]
  /\ main_config_time = [i \in Slots |-> {}]
  /\ model_files = [i \in Slots |-> NoModels]
  /\ w_msg = [i \in Slots |-> "none"]
  /\ termReqs = [i \in Slots |-> 0]
  /\ tp_log = [t \in Threads |-> <<>>]

\* serve_command is entered: a document may be there, one model may be.
Init ==
  /\ mainFile \in Opt(WriteTimes)
  /\ dirExists = TRUE
  /\ files \in {fs \in [ModelNames -> Opt(WriteTimes)] : fs["b"] = {}}
  /\ passthrough \in BOOLEAN
  /\ pc = [t \in Threads |-> IF t = "sup" THEN "start" ELSE "idle"]
  /\ process = "unbound"
  /\ child = [p \in Slots |-> "none"]
  /\ InitRest
  /\ StoreIdle

\* monitor_config_files is entered for a running child, on any disk.
InitW ==
  /\ mainFile \in Opt(MTimes)
  /\ dirExists \in BOOLEAN
  /\ files \in [ModelNames -> Opt(MTimes)]
  /\ (~dirExists => files = NoModels)
  /\ passthrough = FALSE
  /\ pc = [t \in Threads |-> IF t = "sup" THEN "wait"
                             ELSE IF t = "cur" THEN "init" ELSE "idle"]
  /\ process = "cur"
  /\ child = [p \in Slots |-> IF p = "cur" THEN "running" ELSE "none"]
  /\ InitRest
  /\ StoreIdle

\* ------------------------------------------- other processes on the disk
\* An editor or another llamate command rewrites the rendered document.
EnvWriteMain(t, valid) ==
  /\ Serving /\ fsOps < MaxFsOps
  /\ mainFile # {t}
  /\ mainFile' = {t}
  /\ docState' = IF valid THEN "foreign" ELSE "invalid"
  /\ fsOps' = fsOps + 1
  /\ UNCHANGED <<dirty, dirExists, files, passthrough, storeVars>>
  /\ UNCHANGED <<pc, supVars, childVars, watchVars, tp_log>>

EnvDeleteMain ==
  /\ Serving /\ fsOps < MaxFsOps
  /\ mainFile # {}
  /\ mainFile' = {}
  /\ docState' = "none"
  /\ fsOps' = fsOps + 1
  /\ UNCHANGED <<dirty, dirExists, files, passthrough, storeVars>>
  /\ UNCHANGED <<pc, supVars, childVars, watchVars, tp_log>>

\* save_model_config of another llamate command: creates or rewrites a record.
EnvWriteModel(f, t) ==
  /\ Serving /\ fsOps < MaxFsOps
  /\ files[f] # {t}
  /\ dirExists' = TRUE
  /\ files' = [files EXCEPT ![f] = {t}]
  /\ dirty' = TRUE
  /\ fsOps' = fsOps + 1
  /\ UNCHANGED <<mainFile, docState, passthrough, storeVars>>
  /\ UNCHANGED <<pc, supVars, childVars, watchVars, tp_log>>

\* model remove of another llamate command: unlinks a record.
EnvDeleteModel(f) ==
  /\ Serving /\ fsOps < MaxFsOps
  /\ files[f] # {}
  /\ files' = [files EXCEPT ![f] = {}]
  /\ dirty' = TRUE
  /\ fsOps' = fsOps + 1
  /\ UNCHANGED <<mainFile, docState, dirExists, passthrough, storeVars>>
  /\ UNCHANGED <<pc, supVars, childVars, watchVars, tp_log>>

\* The models directory is removed with everything in it.
EnvRemoveModelsDir ==
  /\ Serving /\ fsOps < MaxFsOps
  /\ dirExists
  /\ dirExists' = FALSE
  /\ files' = NoModels
  /\ dirty' = (dirty \/ files # NoModels)
  /\ fsOps' = fsOps + 1
  /\ UNCHANGED <<mainFile, docState, passthrough, storeVars>>
  /\ UNCHANGED <<pc, supVars, childVars, watchVars, tp_log>>

\* ------------------------------------------------ save_llama_swap_config
\* generate_config returns a non-empty dict: a copied global key or a model.
ConfigTruthy == passthrough \/ (dirExists /\ files # NoModels)

\* save_llama_swap_config from a disk holding document (m, d, dt): it raises and
\* leaves the disk alone, or writes the whole document anew, or (an empty
\* dict) writes nothing.
SaveOutcomes(m, d, dt) ==
  {[raised |-> TRUE, main |-> m, doc |-> d, dirty |-> dt]}
  \cup
  (IF ConfigTruthy
     THEN {[raised |-> FALSE, main |-> {t}, doc |-> "rendered", dirty |-> FALSE] :
              t \in WriteTimes}
     ELSE {[raised |-> FALSE, main |-> m, doc |-> d, dirty |-> dt]})

PutDoc(o) ==
  /\ mainFile' = o.main
  /\ docState' = o.doc
  /\ dirty' = o.dirty

\* -------------------------------------------------------- serve_command
\* serve_command returns and the process exits: its daemon threads (line
\* 204) end with it, whatever they were doing.
ExitServe(why) ==
  /\ supExit' = why
  /\ pc' = [t \in Threads |-> IF t = "sup" THEN "done"
                              ELSE IF pc[t] = "idle" THEN "idle" ELSE "ended"]
  /\ stop_event' = [i \in Slots |-> FALSE]
  /\ main_config_time' = [i \in Slots |-> {}]
  /\ model_files' = [i \in Slots |-> NoModels]
  /\ w_msg' = [i \in Slots |-> "none"]
  /\ tp_log' = [t \in Threads |-> <<>>]

\* Lines 123-141: the checks and the first save, before the loop.
SupStart ==
  /\ pc["sup"] = "start"
  /\ \E o \in SaveOutcomes(mainFile, docState, dirty) :
       /\ PutDoc(o)
       /\ IF o.raised
            THEN ExitServe("error")
            ELSE /\ pc' = [pc EXCEPT !["sup"] = "top"]
                 /\ UNCHANGED <<supExit, locals, tp_log>>
  /\ UNCHANGED <<dirExists, files, passthrough, storeVars, fsOps>>
  /\ UNCHANGED <<process, reported, childVars, termReqs>>

\* Lines 182-193: the document is recreated when it is missing, then when it
\* does not open or parse.
EnsureOutcomes ==
  UNION {IF ~o1.raised /\ (o1.main = {} \/ o1.doc = "invalid")
           THEN SaveOutcomes(o1.main, o1.doc, o1.dirty)
           ELSE {o1} :
         o1 \in (IF mainFile = {}
                   THEN SaveOutcomes(mainFile, docState, dirty)
                   ELSE {[raised |-> FALSE, main |-> mainFile, doc |-> docState,
                          dirty |-> dirty]})}

\* The thread of a slot is not running.
Ended(s) == pc[s] \in {"idle", "returned", "stopped", "crashed"}

\* Line 196 rebinds process: what slot "cur" held becomes slot "old", and
\* slot "cur" holds the fresh value.
Rebind(f, fresh) == [s \in Slots |-> IF s = "cur" THEN fresh ELSE f["cur"]]

\* Lines 182-205: the document is ensured, Popen starts the child, and the
\* Watcher thread of this child is started.
SupSpawn ==
  /\ pc["sup"] = "top"
  /\ Ended("old")
  /\ \E o \in EnsureOutcomes :
       /\ ~o.raised
       /\ PutDoc(o)
  /\ process' = "cur"
  /\ child' = Rebind(child, "running")
  /\ sig' = Rebind(sig, "none")
  /\ status' = Rebind(status, {})
  /\ reaped' = Rebind(reaped, FALSE)
  /\ stop_event' = Rebind(stop_event, FALSE)
  /\ main_config_time' = Rebind(main_config_time, {})
  /\ model_files' = Rebind(model_files, NoModels)
  /\ w_msg' = Rebind(w_msg, "none")
  /\ termReqs' = Rebind(termReqs, 0)
  /\ tp_log' = [tp_log EXCEPT !["cur"] = <<>>, !["old"] = tp_log["cur"]]
  /\ pc' = [pc EXCEPT !["sup"] = "wait", !["cur"] = "init", !["old"] = pc["cur"]]
  /\ UNCHANGED <<dirExists, files, passthrough, storeVars, fsOps>>
  /\ UNCHANGED <<supExit, reported>>

\* Lines 235-243: a save of lines 184 or 193 raises, or Popen does (the binary
\* cannot be executed): the loop ends.  The process of the handler is the
\* previous child, which has exited, or an unbound name.
SupSpawnFail ==
  /\ pc["sup"] = "top"
  /\ \E o \in EnsureOutcomes : PutDoc(o)
  /\ ExitServe("error")
  /\ UNCHANGED <<dirExists, files, passthrough, storeVars, fsOps>>
  /\ UNCHANGED <<process, reported, childVars, termReqs>>

\* A Supervisor that goes on to the restart without waiting for the child.
SupWaitNoWait ==
  /\ pc["sup"] = "wait"
  /\ stop_event' = [stop_event EXCEPT ![process] = TRUE]
  /\ pc' = [pc EXCEPT !["sup"] = "rerender"]
  /\ UNCHANGED <<fsVars, supVars, childVars, tp_log>>
  /\ UNCHANGED <<main_config_time, model_files, w_msg, termReqs>>

\* Lines 208-212: process.wait() returns once the child has exited, then
\* stop_event.set(); join(timeout=1) does not wait for the thread to end.
SupWait ==
  /\ pc["sup"] = "wait"
  /\ child[process] = "exited"
  /\ reaped' = [reaped EXCEPT ![process] = TRUE]
  /\ stop_event' = [stop_event EXCEPT ![process] = TRUE]
  /\ pc' = [pc EXCEPT !["sup"] = "check"]
  /\ UNCHANGED <<fsVars, supVars, child, sig, status, tp_log>>
  /\ UNCHANGED <<main_config_time, model_files, w_msg, termReqs>>

\* A loop that also restarts a child that failed with status 1.
ExitIsFatalButOne(rc) == rc # 0 /\ rc # SIGTERM_EXIT /\ rc # 1

\* Line 215: the exit statuses that end the loop.
ExitIsFatal(rc) == rc # 0 /\ rc # SIGTERM_EXIT

\* Lines 215-220.
SupCheck ==
  /\ pc["sup"] = "check"
  /\ \E rc \in status[process] :
       IF ExitIsFatal(rc)
         THEN /\ reported' = {rc}
              /\ ExitServe("fatal")
         ELSE /\ pc' = [pc EXCEPT !["sup"] = "rerender"]
              /\ UNCHANGED <<reported, supExit, locals, tp_log>>
  /\ UNCHANGED <<fsVars, process, childVars, termReqs>>

\* A Supervisor that gives up when the re-render raises.
SupRerenderBreaks ==
  /\ pc["sup"] = "rerender"
  /\ \E o \in SaveOutcomes(mainFile, docState, dirty) :
       /\ PutDoc(o)
       /\ IF o.raised
            THEN ExitServe("error")
            ELSE /\ pc' = [pc EXCEPT !["sup"] = "top"]
                 /\ UNCHANGED <<supExit, locals, tp_log>>
  /\ UNCHANGED <<dirExists, files, passthrough, storeVars, fsOps>>
  /\ UNCHANGED <<process, reported, childVars, termReqs>>

\* Lines 222-225: re-render before the restart; a failure is only a warning.
SupRerender ==
  /\ pc["sup"] = "rerender"
  /\ \E o \in SaveOutcomes(mainFile, docState, dirty) : PutDoc(o)
  /\ pc' = [pc EXCEPT !["sup"] = "top"]
  /\ UNCHANGED <<dirExists, files, passthrough, storeVars, fsOps>>
  /\ UNCHANGED <<supVars, childVars, watchVars, tp_log>>

\* A handler that leaves the loop without looking at the child.
InterruptLeavesChild ==
  /\ pc["sup"] \in {"top", "wait", "check", "rerender"}
  /\ ExitServe("interrupt")
  /\ UNCHANGED <<fsVars, process, reported, childVars, termReqs>>

\* Lines 227-234: KeyboardInterrupt anywhere in the loop.  process.poll() also
\* sets returncode of a child that has exited; with no child yet, the name
\* process is unbound and the bare except passes.
Interrupt ==
  /\ pc["sup"] \in {"top", "wait", "check", "rerender"}
  /\ IF process # "unbound" /\ child[process] = "running"
       THEN /\ pc' = [pc EXCEPT !["sup"] = "tp_signal"]
            /\ supExit' = "interrupt"
            /\ UNCHANGED <<reaped, locals, tp_log>>
       ELSE /\ ExitServe("interrupt")
            /\ reaped' = [p \in Slots |->
                            IF p = process THEN TRUE ELSE reaped[p]]
  /\ UNCHANGED <<fsVars, process, reported, child, sig, status, termReqs>>

\* -------------------------------------------------- monitor_config_files
\* Python's truth value of main_config_time: None and 0.0 are both false.
Truthy(t) == t # {} /\ t # {0}

\* Line 49: "Config file created".
MainCreated(base, disk) == ~Truthy(base) /\ disk # {}

\* Line 56: "Config file deleted".
MainDeleted(base, disk) == Truthy(base) /\ disk = {}

\* A Watcher that takes only a newer modification time for a change.
MainModifiedNewer(base, disk) ==
  disk # {} /\ Truthy(base) /\ \E b \in base, d \in disk : d > b

\* Lines 62-64: "Config file changed".
MainModified(base, disk) == disk # {} /\ Truthy(base) /\ disk # base

\* Lines 78-79: a file of the glob that is new or has another mtime.
ModelChanged(base, disk) == disk # {} /\ (base = {} \/ disk # base)

Present(fs) == {f \in ModelNames : fs[f] # {}}

\* Line 86: fewer files on disk than in the baseline.
ModelsDeleted(base, disk) == Cardinality(Present(disk)) < Cardinality(Present(base))

\* Lines 73-81: the dicts current_model_files can be when the glob, in some
\* order, reaches a changed file: that file and unchanged files seen before it.
PartialDicts(base, disk) ==
  {[f \in ModelNames |-> IF f \in S THEN disk[f] ELSE {}] :
     S \in {T \in SUBSET Present(disk) :
              \E g \in T : /\ ModelChanged(base[g], disk[g])
                           /\ \A h \in T \ {g} : ~ModelChanged(base[h], disk[h])}}

\* A Watcher that polls on after terminate_process returned.
AfterTerminateLoops == "loop"

\* Where a Watcher goes after terminate_process returned: the return statements
\* of lines 53, 68, 83 and 91.
AfterTerminate == "returned"

\* A Watcher thread moves on; when its function ends, its locals are gone.
WatcherGoes(i, to) ==
  /\ pc' = [pc EXCEPT ![i] = to]
  /\ IF to \in {"returned", "stopped", "crashed"}
       THEN /\ main_config_time' = [main_config_time EXCEPT ![i] = {}]
            /\ model_files' = [model_files EXCEPT ![i] = NoModels]
            /\ w_msg' = [w_msg EXCEPT ![i] = "none"]
            /\ tp_log' = [tp_log EXCEPT ![i] = <<>>]
       ELSE /\ w_msg' = [w_msg EXCEPT ![i] = "none"]
            /\ UNCHANGED <<main_config_time, model_files, tp_log>>

\* Lines 28-39: the baseline is captured, outside any try.
WInit(i) ==
  /\ Serving /\ pc[i] = "init"
  /\ main_config_time' = [main_config_time EXCEPT ![i] = mainFile]
  /\ model_files' = [model_files EXCEPT ![i] = IF dirExists THEN files ELSE NoModels]
  /\ pc' = [pc EXCEPT ![i] = "loop"]
  /\ UNCHANGED <<fsVars, supVars, childVars, stop_event, w_msg, termReqs, tp_log>>

\* getmtime or glob raises while the baseline is captured: the thread ends.
WInitError(i) ==
  /\ Serving /\ pc[i] = "init"
  /\ WatcherGoes(i, "crashed")
  /\ UNCHANGED <<fsVars, supVars, childVars, stop_event, termReqs>>

\* Line 41: the loop condition; line 42 is the sleep that follows.
WLoop(i) ==
  /\ Serving /\ pc[i] = "loop"
  /\ WatcherGoes(i, IF stop_event[i] THEN "stopped" ELSE "sleep")
  /\ UNCHANGED <<fsVars, supVars, childVars, stop_event, termReqs>>

\* The poll ends in a call of terminate_process.
Detect(i, msg) ==
  /\ w_msg' = [w_msg EXCEPT ![i] = msg]
  /\ termReqs' = [termReqs EXCEPT ![i] = @ + 1]
  /\ pc' = [pc EXCEPT ![i] = "tp_signal"]
  /\ tp_log' = [tp_log EXCEPT ![i] = <<>>]

\* Lines 44-91: one poll.
WPoll(i) ==
  /\ Serving /\ pc[i] = "sleep"
  /\ termReqs[i] < 2
  /\ LET base == main_config_time[i]
         mf == model_files[i]
     IN
     IF MainCreated(base, mainFile)
       THEN /\ Detect(i, "created")
            /\ main_config_time' = [main_config_time EXCEPT ![i] = mainFile]
            /\ UNCHANGED model_files
     ELSE IF MainDeleted(base, mainFile)
       THEN /\ w_msg' = [w_msg EXCEPT ![i] = "deleted"]
            /\ main_config_time' = [main_config_time EXCEPT ![i] = {}]
            /\ pc' = [pc EXCEPT ![i] = "loop"]
            /\ UNCHANGED <<model_files, termReqs, tp_log>>
     ELSE IF MainModified(base, mainFile)
       THEN /\ Detect(i, "changed")
            /\ main_config_time' = [main_config_time EXCEPT ![i] = mainFile]
            /\ UNCHANGED model_files
     ELSE IF dirExists /\ \E f \in ModelNames : ModelChanged(mf[f], files[f])
       THEN /\ Detect(i, "model_changed")
            /\ \E d \in PartialDicts(mf, files) :
                 model_files' = [model_files EXCEPT ![i] = d]
            /\ UNCHANGED main_config_time
     ELSE IF dirExists /\ ModelsDeleted(mf, files)
       THEN /\ Detect(i, "model_deleted")
            /\ model_files' = [model_files EXCEPT ![i] = files]
            /\ UNCHANGED main_config_time
     ELSE /\ pc' = [pc EXCEPT ![i] = "loop"]
          /\ w_msg' = [w_msg EXCEPT ![i] = "same"]
          /\ UNCHANGED <<main_config_time, model_files, termReqs, tp_log>>
  /\ UNCHANGED <<fsVars, supVars, childVars, stop_event>>

\* Lines 93-95: an exception inside the poll is printed; the loop goes on
\* after the longer sleep.
WPollError(i) ==
  /\ Serving /\ pc[i] = "sleep"
  /\ w_msg' = [w_msg EXCEPT ![i] = "error"]
  /\ pc' = [pc EXCEPT ![i] = "loop"]
  /\ UNCHANGED <<fsVars, supVars, childVars, tp_log>>
  /\ UNCHANGED <<stop_event, main_config_time, model_files, termReqs>>

\* ----------------------------------------------------- terminate_process
\* The process a thread holds: the Watcher of a slot holds the child of it.
Target(t) == IF t = "sup" THEN process ELSE t

\* A terminate_process whose force-kill follows the graceful wait in any case.
AfterWaitOkKills == "tp_kill"

\* Where terminate_process goes when wait(timeout=5) returned: line 111 is the
\* last statement of the try.
AfterWaitOk == "tp_return"

Log(t, e) == tp_log' = [tp_log EXCEPT ![t] = Append(@, e)]

\* Line 108: os.kill(pid, SIGTERM).  The pid of a reaped child is gone and
\* the call raises ProcessLookupError.
TpSignal(t) ==
  /\ Serving /\ pc[t] = "tp_signal"
  /\ LET p == Target(t) IN
     IF reaped[p]
       THEN /\ Log(t, "sigterm_raised")
            /\ pc' = [pc EXCEPT ![t] = "tp_kill"]
            /\ UNCHANGED sig
       ELSE /\ Log(t, "sigterm")
            /\ pc' = [pc EXCEPT ![t] = "tp_wait"]
            /\ sig' = [sig EXCEPT ![p] =
                         IF child[p] = "running" /\ @ = "none" THEN "term" ELSE @]
  /\ UNCHANGED <<fsVars, supVars, child, status, reaped, watchVars>>

\* Line 111: wait(timeout=5) returns, the child has exited.
TpWaitOk(t) ==
  /\ Serving /\ pc[t] = "tp_wait"
  /\ child[Target(t)] = "exited"
  /\ Log(t, "wait5")
  /\ reaped' = [reaped EXCEPT ![Target(t)] = TRUE]
  /\ pc' = [pc EXCEPT ![t] = AfterWaitOk]
  /\ UNCHANGED <<fsVars, supVars, child, sig, status, watchVars>>

\* Line 111 raises TimeoutExpired, the child is still running.
TpWaitTimeout(t) ==
  /\ Serving /\ pc[t] = "tp_wait"
  /\ child[Target(t)] = "running"
  /\ Log(t, "wait5_timeout")
  /\ pc' = [pc EXCEPT ![t] = "tp_kill"]
  /\ UNCHANGED <<fsVars, supVars, childVars, watchVars>>

\* Line 116: process.kill() polls, then sends SIGKILL to a child not yet reaped.
TpKill(t) ==
  /\ Serving /\ pc[t] = "tp_kill"
  /\ Log(t, "kill")
  /\ LET p == Target(t) IN
       /\ sig' = [sig EXCEPT ![p] = IF child[p] = "running" THEN "kill" ELSE @]
       /\ reaped' = [reaped EXCEPT ![p] = @ \/ child[p] = "exited"]
  /\ pc' = [pc EXCEPT ![t] = "tp_wait2"]
  /\ UNCHANGED <<fsVars, supVars, child, status, watchVars>>

\* Line 117: wait(timeout=2) returns.
TpWait2Ok(t) ==
  /\ Serving /\ pc[t] = "tp_wait2"
  /\ child[Target(t)] = "exited"
  /\ Log(t, "wait2")
  /\ reaped' = [reaped EXCEPT ![Target(t)] = TRUE]
  /\ pc' = [pc EXCEPT ![t] = "tp_return"]
  /\ UNCHANGED <<fsVars, supVars, child, sig, status, watchVars>>

\* Line 117 raises TimeoutExpired; line 119 gives up.
TpWait2Timeout(t) ==
  /\ Serving /\ pc[t] = "tp_wait2"
  /\ child[Target(t)] = "running"
  /\ Log(t, "wait2_timeout")
  /\ pc' = [pc EXCEPT ![t] = "tp_return"]
  /\ UNCHANGED <<fsVars, supVars, childVars, watchVars>>

\* terminate_process returns to its caller: a Watcher returns (lines 53, 68,
\* 83, 91), serve_command breaks (line 234).
TpReturn(t) ==
  /\ Serving /\ pc[t] = "tp_return"
  /\ IF t = "sup"
       THEN ExitServe("interrupt")
       ELSE /\ WatcherGoes(t, AfterTerminate)
            /\ UNCHANGED <<supExit, stop_event>>
  /\ UNCHANGED <<fsVars, process, reported, childVars, termReqs>>

\* ---------------------------------------------------------- the child
\* The child has exited with status s; signals still pending are gone.
Exits(p, s) ==
  /\ child' = [child EXCEPT ![p] = "exited"]
  /\ status' = [status EXCEPT ![p] = {s}]
  /\ sig' = [sig EXCEPT ![p] = "none"]
  /\ UNCHANGED <<fsVars, pc, supVars, reaped, watchVars, tp_log>>

\* llama-swap ends by itself, cleanly or with an error.
ChildExitOwn(p, s) ==
  /\ Serving /\ child[p] = "running"
  /\ Exits(p, s)

\* The statuses Popen reports for a child ended by SIGTERM: killed by the
\* signal, or 128+15 from a shell or a handler that re-exits.
SigtermStatuses == {KilledBySIGTERM, SIGTERM_EXIT}

ChildExitOnTerm(p, s) ==
  /\ Serving /\ child[p] = "running" /\ sig[p] = "term"
  /\ Exits(p, s)

ChildKilled(p) ==
  /\ Serving /\ child[p] = "running" /\ sig[p] = "kill"
  /\ Exits(p, KilledBySIGKILL)

\* ------------------------------------------------------------------ Next
\* The steps of a Watcher thread, terminate_process included.
WatcherStep(i) ==
  \/ WInit(i)
  \/ WInitError(i)
  \/ WLoop(i)
  \/ WPoll(i)
  \/ WPollError(i)

TpStep(t) ==
  \/ TpSignal(t)
  \/ TpWaitOk(t)
  \/ TpWaitTimeout(t)
  \/ TpKill(t)
  \/ TpWait2Ok(t)
  \/ TpWait2Timeout(t)
  \/ TpReturn(t)

ChildStep(p) ==
  \/ \E s \in {0, 1} : ChildExitOwn(p, s)
  \/ \E s \in SigtermStatuses : ChildExitOnTerm(p, s)
  \/ ChildKilled(p)

\* What other processes do to the disk, on the given names with the given times.
Env(names, times) ==
  \/ \E t \in times, valid \in BOOLEAN : EnvWriteMain(t, valid)
  \/ EnvDeleteMain
  \/ \E f \in names, t \in times : EnvWriteModel(f, t)
  \/ \E f \in names : EnvDeleteModel(f)

SupStep ==
  \/ SupStart
  \/ SupSpawn
  \/ SupSpawnFail
  \/ SupWait
  \/ SupCheck
  \/ SupRerender

\* The serve loop with its Watchers and children; one model record changes.
Next ==
  \/ fsOps < MaxServeFsOps /\ Env({"a"}, WriteTimes)
  \/ SupStep
  \/ \E i \in Slots : WatcherStep(i)
  \/ \E t \in Slots : TpStep(t)
  \/ \E p \in Slots : ChildStep(p)

Spec == Init /\ [][Next]_vars

\* One Watcher and its child, on a disk where anything changes.
NextW ==
  \/ Env(ModelNames, MTimes)
  \/ EnvRemoveModelsDir
  \/ WatcherStep("cur")
  \/ TpStep("cur")
  \/ ChildStep("cur")

SpecW == InitW /\ [][NextW]_vars

\* The serve loop under an operator's Ctrl-C.
NextI ==
  \/ Next
  \/ Interrupt
  \/ TpStep("sup")

SpecI == Init /\ [][NextI]_vars

\* The serve loop under an operator's Ctrl-C while a model record is rewritten.
NextK ==
  \/ fsOps < MaxServeFsOps /\ \E t \in WriteTimes : EnvWriteModel("a", t)
  \/ SupStep
  \/ \E i \in Slots : WatcherStep(i)
  \/ \E t \in Threads : TpStep(t)
  \/ \E p \in Slots : ChildStep(p)
  \/ Interrupt

SpecK == Init /\ [][NextK]_vars

\* ======================================================= global settings
LLAMA_SWAP_DEFAULT_PORT == 11434

\* constants.DEFAULT_CONFIG once init_paths has set the storage path to
\* LLAMATE_HOME/ggufs.
DEFAULT_CONFIG ==
  [llama_server_path |-> "",
   ggufs_storage_path |-> "/home/ggufs",
   llama_swap_listen_port |-> LLAMA_SWAP_DEFAULT_PORT]

\* A merge that lets the first dict win.
MergeKeepsFirst(d, u) ==
  [k \in (DOMAIN d) \cup (DOMAIN u) |-> IF k \in DOMAIN d THEN d[k] ELSE u[k]]

\* {**d, **u}: the keys of both, u's value where both have the key.
Merge(d, u) ==
  [k \in (DOMAIN d) \cup (DOMAIN u) |-> IF k \in DOMAIN u THEN u[k] ELSE d[k]]

\* {k: d[k] for k in d if k in S}
Restrict(d, S) == [k \in S \cap DOMAIN d |-> d[k]]

\* load_global_config on a settings file that is absent or holds a mapping
\* (an empty file loads as the empty mapping).
load_global_config(file) ==
  IF file = {} THEN DEFAULT_CONFIG
  ELSE Merge(DEFAULT_CONFIG, CHOOSE u \in file : TRUE)

\* ======================================================= generate_config
\* An ordered mapping (a Python dict in its iteration order) is a sequence of
\* <<key, value>> pairs with distinct keys: the models mapping handed to
\* generate_config, and the args of a model.
OrderedKeys(od) == {od[i][1] : i \in DOMAIN od}
Lookup(od, key) == (CHOOSE i \in DOMAIN od : od[i][1] = key)
ValueOf(od, key) == od[Lookup(od, key)][2]

\* Line 152: the global keys copied into the document.
CopiedKeys == {"healthCheckTimeout", "logLevel", "startPort", "macros"}

\* A renderer that gives every argument its value, "true" included.
FragmentWithValue(key, value) == "--" \o key \o " " \o value

\* Line 175: the fragment of one argument.
Fragment(key, value) ==
  IF value = "true" THEN "--" \o key ELSE "--" \o key \o " " \o value

\* Lines 169-175: the fragments of the args, in their order; proxy gives none.
RECURSIVE ArgParts(_)
ArgParts(args) ==
  IF args = <<>> THEN <<>>
  ELSE (IF Head(args)[1] = "proxy" THEN <<>>
        ELSE <<Fragment(Head(args)[1], Head(args)[2])>>)
       \o ArgParts(Tail(args))

\* sep.join(parts)
RECURSIVE Join(_, _)
Join(sep, parts) ==
  IF parts = <<>> THEN ""
  ELSE IF Len(parts) = 1 THEN parts[1]
  ELSE parts[1] \o sep \o Join(sep, Tail(parts))

\* A renderer that leaves the last line open.
CmdTextOpen(parts) == Join("\n", parts)

\* Line 177: the parts on one line each, the last line ended too.
CmdText(parts) == Join("\n", parts) \o "\n"

\* Line 159: Path(storage) / file, for a file name without directory.
PathJoin(dir, file) == IF dir = "" THEN file ELSE dir \o "/" \o file

\* Lines 170-172: the entry a proxy among the args starts.
ProxyEntry(args) ==
  IF "proxy" \in OrderedKeys(args)
    THEN [k \in {"proxy"} |-> ValueOf(args, "proxy")]
    ELSE EmptyDict

\* Line 168: model_config.get('args', {}).
ArgsOf(mc) == IF "args" \in DOMAIN mc THEN mc["args"] ELSE <<>>

\* Lines 157-186: the document entry of one model.
ModelEntry(g, mc) ==
  LET gguf_path == PathJoin(g["ggufs_storage_path"], mc["hf_file"])
      cmd_parts == <<g["llama_server_path"], "--model " \o gguf_path>>
                     \o ArgParts(ArgsOf(mc))
      started == Merge(ProxyEntry(ArgsOf(mc)),
                       [k \in {"cmd"} |-> CmdText(cmd_parts)])
  IN Merge(started, Restrict(mc, (DOMAIN mc) \ {"hf_repo", "hf_file", "args"}))

\* A renderer that attaches the models key in any case.
ModelsPartAlways(models) == [k \in {"models"} |-> models]

\* Lines 188-189: the models key, for a mapping that is not empty.
ModelsPart(models) ==
  IF DOMAIN models # {} THEN [k \in {"models"} |-> models] ELSE EmptyDict

\* Lines 191-192: the groups key, for settings that have one.
GroupsPart(g) ==
  IF "groups" \in DOMAIN g THEN [k \in {"groups"} |-> g["groups"]] ELSE EmptyDict

\* generate_config with the settings load_global_config returned: the
\* document, or the KeyError of line 159 for a model without hf_file.
generate_config(g, model_configs) ==
  IF \E i \in DOMAIN model_configs : "hf_file" \notin DOMAIN model_configs[i][2]
    THEN [raised |-> "KeyError", value |-> EmptyDict]
    ELSE LET models == [n \in OrderedKeys(model_configs) |->
                          ModelEntry(g, ValueOf(model_configs, n))]
         IN [raised |-> "none",
             value |-> Merge(Merge(Restrict(g, CopiedKeys), ModelsPart(models)),
                             GroupsPart(g))]

\* ------------------------------------------------ the inputs looked at
MaxArgs == 2

\* A settings file with every key the model looks at.
FullSettings ==
  [llama_server_path |-> "/bin/server",
   ggufs_storage_path |-> "/data",
   logLevel |-> "debug",
   groups |-> [g1 |-> [members |-> <<"a">>]]]

GlobalFiles == Opt({Restrict(FullSettings, S) : S \in SUBSET DOMAIN FullSettings})

ArgPairs ==
  {<<"ctx-size", "4096">>, <<"flash-attn", "true">>, <<"port", "8080">>,
   <<"proxy", "http://127.0.0.1:8080">>}

\* The ordered mappings of at most n of the given pairs.
OrderedMaps(pairs, n) ==
  UNION {{od \in [1..k -> pairs] :
            \A i, j \in 1..k : i # j => od[i][1] # od[j][1]} : k \in 0..n}

ArgsMaps == OrderedMaps(ArgPairs, MaxArgs)

\* The records model add writes: args, and the proxy of the model's port.
ModelRecords ==
  {[hf_repo |-> "org/repo", hf_file |-> "m1.gguf", args |-> a] : a \in ArgsMaps}
  \cup
  {[hf_repo |-> "org/repo", hf_file |-> "m1.gguf", args |-> a,
    proxy |-> "http://127.0.0.1:9999"] : a \in ArgsMaps}

ModelConfigs ==
  OrderedMaps({<<n, r>> : n \in ModelNames, r \in ModelRecords},
              Cardinality(ModelNames))

\* The serve variables while serve is not running.
serveVars ==
  <<mainFile, docState, dirty, dirExists, files, passthrough, fsOps,
    pc, supVars, childVars, watchVars, tp_log>>

ServeIdle ==
  /\ mainFile = {}
  /\ dirExists = FALSE
  /\ files = NoModels
  /\ passthrough = FALSE
  /\ pc = [t \in Threads |-> "idle"]
  /\ process = "unbound"
  /\ child = [p \in Slots |-> "none"]
  /\ InitRest

\* generate_config or load_global_config is about to be called.
InitG ==
  /\ ServeIdle
  /\ home = "home"
  /\ globalFile \in GlobalFiles
  /\ modelStore = EmptyDict
  /\ swapFile = {}
  /\ call \in {[op |-> "generate_config", model_configs |-> m] : m \in ModelConfigs}
              \cup {[op |-> "load_global_config"]}
  /\ ret = NotDone
  /\ runs = 0

GenerateConfig ==
  /\ call.op = "generate_config" /\ ~ret.done
  /\ LET r == generate_config(load_global_config(globalFile), call.model_configs)
     IN ret' = [done |-> TRUE, raised |-> r.raised, value |-> r.value]
  /\ UNCHANGED <<serveVars, home, globalFile, modelStore, swapFile, call, runs>>

LoadGlobalConfig ==
  /\ call.op = "load_global_config" /\ ~ret.done
  /\ ret' = [done |-> TRUE, raised |-> "none",
             value |-> load_global_config(globalFile)]
  /\ UNCHANGED <<serveVars, home, globalFile, modelStore, swapFile, call, runs>>

NextG ==
  \/ GenerateConfig
  \/ LoadGlobalConfig

SpecG == InitG /\ [][NextG]_vars

\* =========================================================== model store
\* Strings are looked at one character at a time.
CharAt(s, i) == SubSeq(s, i, i)
Letters ==
  {"a", "b", "c", "d", "e", "f", "g", "h", "i", "j", "k", "l", "m", "n", "o",
   "p", "q", "r", "s", "t", "u", "v", "w", "x", "y", "z"}
Digits == {"0", "1", "2", "3", "4", "5", "6", "7", "8", "9"}
\* str.isalnum on the characters the model's inputs are written in.
IsAlnum(c) == c \in Letters \cup Digits
HasChar(s, c) == \E i \in 1..Len(s) : CharAt(s, i) = c
AllChars(s, allowed) == \A i \in 1..Len(s) : CharAt(s, i) \in allowed

\* str.strip
Strip(s) ==
  LET inside == {i \in 1..Len(s) : CharAt(s, i) # " "}
  IN IF inside = {} THEN ""
     ELSE SubSeq(s, CHOOSE i \in inside : \A j \in inside : i <= j,
                    CHOOSE i \in inside : \A j \in inside : j <= i)

\* s.split(c, 1) of a string that has the character c.
SplitOnce(s, c) ==
  LET at == CHOOSE i \in 1..Len(s) :
              CharAt(s, i) = c /\ \A j \in 1..(i - 1) : CharAt(s, j) # c
  IN <<SubSeq(s, 1, at - 1), SubSeq(s, at + 1, Len(s))>>

\* Path(file).stem: the name up to its last dot, a leading dot left alone.
Stem(file) ==
  LET dots == {i \in 2..Len(file) : CharAt(file, i) = "."}
  IN IF dots = {} THEN file
     ELSE SubSeq(file, 1, (CHOOSE i \in dots : \A j \in dots : j <= i) - 1)

\* What a function gives: a value, or the exception it raises.
Ok(v) == [raised |-> "none", value |-> v]
Raise(e) == [raised |-> e, value |-> {}]

\* model.py, line 27: re.match(r"^[\w\-:]+$", alias)
AliasFormatOk(alias) ==
  /\ alias # ""
  /\ AllChars(alias, Letters \cup Digits \cup {"_", "-", ":"})

\* The catalog of pre-configured models, data/model_aliases.py, with the
\* entry its test uses.
MODEL_ALIASES ==
  [k \in {"test:4b"} |->
     [hf_repo |-> "test/model-4b", hf_file |-> "model-4b-q4.gguf",
      args |-> <<<<"ctx-size", "4096">>>>]]

\* model.py, lines 12-40; the value {} is None.
parse_model_alias(alias) ==
  IF alias = "" THEN Ok({})
  ELSE IF ~AliasFormatOk(alias) THEN Raise("InvalidInputError")
  ELSE IF alias \in DOMAIN MODEL_ALIASES THEN Ok({MODEL_ALIASES[alias]})
  ELSE IF \E n \in DOMAIN MODEL_ALIASES : alias = MODEL_ALIASES[n]["hf_repo"]
    THEN Ok({MODEL_ALIASES[CHOOSE n \in DOMAIN MODEL_ALIASES :
                             alias = MODEL_ALIASES[n]["hf_repo"]]})
  ELSE Ok({})

\* model.py, lines 42-87, for a specification that is not a URL: one with a
\* "/" has not passed line 27 of parse_model_alias.
parse_hf_spec(hf_spec) ==
  IF hf_spec = "" THEN Raise("InvalidInputError")
  ELSE IF HasChar(hf_spec, ":")
    THEN LET repo == SplitOnce(hf_spec, ":")[1]
             file == SplitOnce(hf_spec, ":")[2]
         IN IF repo = "" \/ file = "" THEN Raise("InvalidInputError")
            ELSE IF ~AllChars(repo, Letters \cup Digits \cup {"_", "-", "/", "."})
              THEN Raise("InvalidInputError")
            ELSE Ok(<<repo, file>>)
  ELSE Raise("InvalidInputError")

\* model.py, lines 89-105
validate_text(text, allow_empty) ==
  IF text = "" /\ ~allow_empty THEN Raise("InvalidInputError") ELSE Ok(Strip(text))

RECURSIVE Sanitized(_)
\* model.py, line 122: every character that is not allowed becomes "_".
Sanitized(s) ==
  IF s = "" THEN ""
  ELSE (IF IsAlnum(CharAt(s, 1)) \/ CharAt(s, 1) \in {"_", "-", ":"}
          THEN CharAt(s, 1) ELSE "_")
       \o Sanitized(SubSeq(s, 2, Len(s)))

\* model.py, lines 107-122
validate_model_name(model_name) ==
  LET text == validate_text(model_name, FALSE)
  IN IF text.raised # "none" THEN text
     ELSE IF ~\E i \in 1..Len(text.value) : IsAlnum(CharAt(text.value, i))
       THEN Raise("InvalidInputError")
     ELSE Ok(Sanitized(text.value))

\* dict[key] = value on an ordered mapping: a key it has keeps its place.
Put(od, key, value) ==
  IF key \in OrderedKeys(od)
    THEN [od EXCEPT ![Lookup(od, key)] = <<key, value>>]
    ELSE Append(od, <<key, value>>)

RECURSIVE validate_args_from(_, _)
\* model.py, lines 140-154: the loop, with the result so far.
validate_args_from(args_list, result) ==
  IF args_list = <<>> THEN Ok(result)
  ELSE LET arg == Head(args_list) IN
    IF ~HasChar(arg, "=") THEN Raise("InvalidInputError")
    ELSE LET key == SplitOnce(arg, "=")[1]
             value == SplitOnce(arg, "=")[2]
         IN IF key = "" THEN Raise("InvalidInputError")
            ELSE IF ~AllChars(Strip(key), Letters \cup Digits \cup {"-", "_"})
              THEN Raise("InvalidInputError")
            ELSE validate_args_from(Tail(args_list), Put(result, Strip(key), Strip(value)))

\* model.py, lines 124-154
validate_args_list(args_list) == validate_args_from(args_list, <<>>)

\* config.py, line 146: the longest alias register_alias takes.
ALIAS_MAX_LEN == 50

\* A per-model file that yaml.safe_load cannot read.
Unparsable == [parses |-> FALSE]
\* A per-model file holding a mapping.
Stored(data) == [parses |-> TRUE, data |-> data]

\* config.py, lines 83-110
load_model_config(store, model_name) ==
  IF model_name \notin DOMAIN store THEN Raise("ValueError")
  ELSE IF ~store[model_name].parses THEN Raise("RuntimeError")
  ELSE LET config == store[model_name].data
           renamed == IF "default_args" \in DOMAIN config
                        THEN Merge(Restrict(config, (DOMAIN config) \ {"default_args"}),
                                   [k \in {"args"} |-> config["default_args"]])
                        ELSE config
       IN Ok(IF "args" \in DOMAIN renamed THEN renamed
             ELSE Merge(renamed, [k \in {"args"} |-> <<>>]))

\* The argument names of the model in the order yaml.dump writes the keys of
\* a mapping (sorted).
KeyOrder == <<"ctx-size", "flash-attn", "n-gpu-layers", "port", "proxy">>

\* yaml.dump, then yaml.safe_load, of an args mapping: the keys come back
\* sorted.
DumpedArgs(od) ==
  LET keys == SelectSeq(KeyOrder, LAMBDA k : k \in OrderedKeys(od))
  IN [i \in DOMAIN keys |-> <<keys[i], ValueOf(od, keys[i])>>]

\* config.py, lines 112-128: the store after save_model_config.
save_model_config(store, model_name, config) ==
  LET dumped == IF "args" \in DOMAIN config
                  THEN [config EXCEPT !["args"] = DumpedArgs(config["args"])]
                  ELSE config
  IN [n \in (DOMAIN store) \cup {model_name} |->
        IF n = model_name THEN Stored(dumped) ELSE store[n]]

\* global_config.get("aliases", {})
AliasesOf(global_config) ==
  IF "aliases" \in DOMAIN global_config THEN global_config["aliases"] ELSE EmptyDict

\* config.py, lines 130-159: the exception raised, or the settings file after
\* save_global_config.
register_alias(file, store, alias, model_name) ==
  IF alias = "" THEN Raise("InvalidAliasError")
  ELSE IF HasChar(alias, "/") \/ HasChar(alias, "\\") THEN Raise("InvalidAliasError")
  ELSE IF Len(alias) > ALIAS_MAX_LEN THEN Raise("InvalidAliasError")
  ELSE IF model_name \notin DOMAIN store THEN Raise("ModelNotFoundError")
  ELSE LET global_config == load_global_config(file)
           aliases == Merge(AliasesOf(global_config), [k \in {alias} |-> model_name])
       IN Ok({Merge(global_config, [k \in {"aliases"} |-> aliases])})

\* cli/commands/model.py, lines 236-249
resolve_model_name(file, store, name) ==
  IF name \in DOMAIN store THEN Ok(name)
  ELSE IF name \in DOMAIN AliasesOf(load_global_config(file))
    THEN Ok(AliasesOf(load_global_config(file))[name])
  ELSE Raise("ValueError")

\* The files MODELS_DIR.glob("*.yaml") yields, in one of the orders the file
\* system may give them.
GlobOrders(names) ==
  {order \in [1..Cardinality(names) -> names] :
     \A i, j \in DOMAIN order : i # j => order[i] # order[j]}

RECURSIVE LoadAll(_, _, _)
\* llama_swap.py, lines 113-117: the models loaded so far, then the rest of
\* the files; ValueError and KeyError skip a file.
LoadAll(store, order, models) ==
  IF order = <<>> THEN Ok(models)
  ELSE LET loaded == load_model_config(store, Head(order)) IN
    IF loaded.raised \in {"ValueError", "KeyError"}
      THEN LoadAll(store, Tail(order), models)
    ELSE IF loaded.raised # "none" THEN loaded
    ELSE LoadAll(store, Tail(order), Append(models, <<Head(order), loaded.value>>))

\* llama_swap.py, lines 109-124: the exception raised, or LLAMATE_HOME and the
\* document file after the call (line 122 makes the directory of the file).
save_llama_swap_config(homeDir, file, store, swap, order) ==
  LET models == IF homeDir = "models" THEN LoadAll(store, order, <<>>) ELSE Ok(<<>>)
  IN IF models.raised # "none" THEN models
     ELSE LET swap_config == generate_config(load_global_config(file), models.value)
          IN IF swap_config.raised # "none" THEN Raise(swap_config.raised)
             ELSE IF swap_config.value # EmptyDict
               THEN Ok([home |-> IF homeDir = "absent" THEN "home" ELSE homeDir,
                        swapFile |-> {swap_config.value}])
             ELSE Ok([home |-> homeDir, swapFile |-> swap])


\* model.py, lines 156-182: the args after configure_gpu. gpu is "off" without
\* --auto-gpu; with it, what platform.detect_gpu does: "fail" (it raises),
\* "none" (no GPU) or the number of layers it suggests.
configure_gpu(args, gpu) ==
  IF gpu = "off" \/ "n-gpu-layers" \in OrderedKeys(args) THEN Ok(args)
  ELSE IF gpu = "fail" THEN Raise("ResourceError")
  ELSE IF gpu = "none" THEN Ok(args)
  ELSE Ok(Put(args, "n-gpu-layers", gpu))

RECURSIVE Update(_, _)
\* dict.update
Update(od, u) ==
  IF u = <<>> THEN od ELSE Update(Put(od, Head(u)[1], Head(u)[2]), Tail(u))

\* What a command leaves behind: the exception that ended it ("none" when it
\* returned) and the contents of the disk.
After(raised, homeDir, file, store, swap) ==
  [raised |-> raised, home |-> homeDir, globalFile |-> file,
   modelStore |-> store, swapFile |-> swap]

\* cli/commands/model.py, lines 9-64: model add up to the download, which
\* writes to the GGUF directory alone. c.remote is what get_model_aliases
\* does: "fail" (it raises), "listed" or "unlisted" (hf_spec is or is not in
\* the catalog it fetched).
model_add_command(homeDir, file, store, swap, c) ==
  LET Fail(e) == After(e, homeDir, file, store, swap)
      known == parse_model_alias(c.hf_spec)
      parsed == parse_hf_spec(c.hf_spec)
  IN
  IF homeDir = "absent" THEN Fail("SystemExit")
  ELSE IF known.raised # "none" THEN Fail(known.raised)
  ELSE IF known.value = {} /\ parsed.raised # "none" THEN Fail(parsed.raised)
  ELSE IF c.remote = "fail" THEN Fail("ResourceError")
  ELSE
    LET model_data == IF known.value # {} THEN CHOOSE d \in known.value : TRUE
                      ELSE [hf_repo |-> parsed.value[1], hf_file |-> parsed.value[2],
                            args |-> <<>>]
        proposed == IF c.alias # "" THEN c.alias
                    ELSE IF c.remote = "listed" THEN c.hf_spec
                    ELSE Stem(model_data["hf_file"])
        model_name == validate_model_name(proposed)
        with_gpu == configure_gpu(model_data["args"], c.gpu)
        given == validate_args_list(c.set)
    IN
    IF model_name.raised # "none" THEN Fail(model_name.raised)
    ELSE IF with_gpu.raised # "none" THEN Fail(with_gpu.raised)
    ELSE IF c.set # <<>> /\ given.raised # "none" THEN Fail(given.raised)
    ELSE
      LET args == IF c.set # <<>> THEN Update(with_gpu.value, given.value)
                  ELSE with_gpu.value
          port == IF "port" \in OrderedKeys(args) THEN ValueOf(args, "port") ELSE "9999"
          record == Merge([model_data EXCEPT !["args"] = args],
                          [k \in {"proxy"} |-> "http://127.0.0.1:" \o port])
          saved == save_model_config(store, model_name.value, record)
          registered == register_alias(file, saved, c.alias, model_name.value)
      IN
      IF c.alias # "" /\ c.alias # model_name.value
        THEN IF registered.raised # "none"
               THEN After(registered.raised, "models", file, saved, swap)
               ELSE After("none", "models", registered.value, saved, swap)
        ELSE After("none", "models", file, saved, swap)

\* A copy that does not look at the aliases.
CopyRefusedButAlias(file, store, source_name, new_name) ==
  \/ source_name = new_name
  \/ new_name \in DOMAIN store

\* cli/commands/model.py, lines 209-222: the names model copy turns down.
CopyRefused(file, store, source_name, new_name) ==
  \/ source_name = new_name
  \/ new_name \in DOMAIN store
  \/ new_name \in DOMAIN AliasesOf(load_global_config(file))

\* cli/commands/model.py, lines 195-235; order is the order in which
\* save_llama_swap_config finds the per-model files.
model_copy_command(homeDir, file, store, swap, c, order) ==
  LET Fail(e) == After(e, homeDir, file, store, swap)
      source_name == resolve_model_name(file, store, c.source_model)
      new_name == validate_model_name(c.new_model_name)
  IN
  IF homeDir = "absent" THEN Fail("SystemExit")
  ELSE IF source_name.raised # "none" THEN Fail(source_name.raised)
  ELSE IF new_name.raised # "none" THEN Fail(new_name.raised)
  ELSE IF CopyRefused(file, store, source_name.value, new_name.value)
    THEN Fail("SystemExit")
  ELSE
    LET model_config == load_model_config(store, source_name.value)
        saved == save_model_config(store, new_name.value, model_config.value)
        rendered == save_llama_swap_config("models", file, saved, swap, order)
    IN IF model_config.raised # "none" THEN Fail(model_config.raised)
       ELSE IF rendered.raised # "none"
         THEN After(rendered.raised, "models", file, saved, swap)
       ELSE After("none", "models", file, saved, rendered.value.swapFile)

\* Aliases nobody cleans up.
AliasesLeft(aliases, model_name) == aliases

\* cli/commands/model.py, line 122: the aliases that do not point at the model.
updated_aliases(aliases, model_name) ==
  Restrict(aliases, {a \in DOMAIN aliases : aliases[a] # model_name})

\* cli/commands/model.py, lines 106-147: model remove. The ValueError of a
\* model that has no file is caught and printed (line 146), so the command
\* returns; both branches of the GGUF removal read model_config['hf_file']
\* (lines 134 and 139). The GGUF directory is not part of the state.
model_remove_command(homeDir, file, store, swap, c, order) ==
  LET model_config == load_model_config(store, c.model_name) IN
  IF model_config.raised = "ValueError" THEN After("none", homeDir, file, store, swap)
  ELSE IF model_config.raised # "none"
    THEN After(model_config.raised, homeDir, file, store, swap)
  ELSE
    LET unlinked == Restrict(store, (DOMAIN store) \ {c.model_name})
        global_config == load_global_config(file)
        aliases == AliasesOf(global_config)
        updated == updated_aliases(aliases, c.model_name)
        saved == IF updated # aliases
                   THEN {Merge(global_config, [k \in {"aliases"} |-> updated])}
                   ELSE file
        rendered == save_llama_swap_config(homeDir, saved, unlinked, swap, order)
    IN IF rendered.raised # "none"
         THEN After(rendered.raised, homeDir, saved, unlinked, swap)
       ELSE IF "hf_file" \notin DOMAIN model_config.value
         THEN After("KeyError", homeDir, saved, unlinked, rendered.value.swapFile)
       ELSE After("none", homeDir, saved, unlinked, rendered.value.swapFile)

\* The aliases of a model: reverse_aliases.get(model_name, []).
ReverseAliases(file, model_name) ==
  {a \in DOMAIN AliasesOf(load_global_config(file)) :
     AliasesOf(load_global_config(file))[a] = model_name}

RECURSIVE ListFrom(_, _, _, _)
\* cli/commands/model.py, lines 97-104: the lines printed so far, then the
\* rest of the files; ValueError and KeyError skip a file.
ListFrom(file, store, order, printed) ==
  IF order = <<>> THEN Ok(printed)
  ELSE LET model_config == load_model_config(store, Head(order)) IN
    IF model_config.raised = "ValueError" THEN ListFrom(file, store, Tail(order), printed)
    ELSE IF model_config.raised # "none" THEN model_config
    ELSE IF {"hf_repo", "hf_file"} \subseteq DOMAIN model_config.value
      THEN ListFrom(file, store, Tail(order),
                    Append(printed, [name |-> Head(order),
                                     aliases |-> ReverseAliases(file, Head(order)),
                                     hf_repo |-> model_config.value["hf_repo"],
                                     hf_file |-> model_config.value["hf_file"]]))
    ELSE ListFrom(file, store, Tail(order), printed)

\* cli/commands/model.py, lines 83-104: the models model list prints.
model_list_command(homeDir, file, store, order) ==
  IF homeDir # "models" THEN Ok(<<>>) ELSE ListFrom(file, store, order, <<>>)

\* cli.py, lines 161-168, and sys.exit(1): the exit status of a command.
ExitStatus(raised) == IF raised = "none" THEN 0 ELSE 1

\* ------------------------------------------------ the stores looked at
StoreNames == {"m1", "m2"}

\* A record as model add writes it, one from before args had its name, one
\* without the name of its file, and a file that is not YAML.
GoodRecord ==
  [hf_repo |-> "org/repo", hf_file |-> "m1.gguf",
   args |-> <<<<"ctx-size", "4096">>>>, proxy |-> "http://127.0.0.1:9999"]
OldRecord ==
  [hf_repo |-> "org/repo", hf_file |-> "m2.gguf",
   default_args |-> <<<<"flash-attn", "true">>>>]
RecordWithoutFile == [hf_repo |-> "org/repo", args |-> <<>>]
Contents == {Stored(GoodRecord), Stored(OldRecord), Stored(RecordWithoutFile), Unparsable}

ModelStores == UNION {[names -> Contents] : names \in SUBSET StoreNames}

BaseSettings == [llama_server_path |-> "/bin/server", ggufs_storage_path |-> "/data"]
SettingsFiles ==
  {{}, {BaseSettings},
   {Merge(BaseSettings, [k \in {"aliases"} |-> [a \in {"x"} |-> "m1"]])},
   {Merge(BaseSettings, [k \in {"logLevel"} |-> "debug"])}}

\* The document an earlier run wrote, when m1 was the only model.
StaleDocument ==
  generate_config(load_global_config({BaseSettings}), <<<<"m1", GoodRecord>>>>).value

\* The commands and their arguments.
AddCalls ==
  {[op |-> "model_add", hf_spec |-> h, alias |-> a, set |-> st, gpu |-> g, remote |-> r] :
     h \in {"repo:m1", "org/repo:m1", "llama3", "test:4b"},
     a \in {"", "m1", "x/y", "my m"},
     st \in {<<>>, <<"port=8080">>, <<"ctx-size">>},
     g \in {"off", "fail", "35"},
     r \in {"fail", "listed", "unlisted"}}
CopyCalls ==
  {[op |-> "model_copy", source_model |-> src, new_model_name |-> new] :
     src \in {"m1", "x", "zz"}, new \in {"m1", "m2", "x", "new one", "--"}}

RemoveCalls == {[op |-> "model_remove", model_name |-> n] : n \in {"m1", "m2", "x"}}

\* A command of the model store is about to run on a disk other runs or the
\* operator's editor have written.
InitS ==
  /\ ServeIdle
  /\ home \in {"absent", "home", "models"}
  /\ globalFile \in SettingsFiles
  /\ modelStore \in ModelStores
  /\ home = "absent" => globalFile = {}
  /\ home # "models" => modelStore = EmptyDict
  /\ swapFile \in {{}, {StaleDocument}}
  /\ home = "absent" => swapFile = {}
  /\ call = NoCall
  /\ ret = NotDone
  /\ runs = 0

\* The outcome of a command and the disk it leaves.
Leaves(c, after, value) ==
  /\ call' = c
  /\ ret' = [done |-> TRUE, raised |-> after.raised,
             exit |-> ExitStatus(after.raised), value |-> value]
  /\ home' = after.home
  /\ globalFile' = after.globalFile
  /\ modelStore' = after.modelStore
  /\ swapFile' = after.swapFile
  /\ runs' = runs + 1
  /\ UNCHANGED serveVars

ModelAdd ==
  /\ ~ret.done
  /\ \E c \in AddCalls :
       Leaves(c, model_add_command(home, globalFile, modelStore, swapFile, c), <<>>)

\* The names of the per-model files once model copy has saved its record.
NamesAfterCopy(c) ==
  (DOMAIN modelStore)
  \cup (IF validate_model_name(c.new_model_name).raised = "none"
          THEN {validate_model_name(c.new_model_name).value} ELSE {})

ModelCopy ==
  /\ ~ret.done
  /\ \E c \in CopyCalls : \E order \in GlobOrders(NamesAfterCopy(c)) :
       Leaves(c, model_copy_command(home, globalFile, modelStore, swapFile, c, order),
              <<>>)

ModelRemove ==
  /\ ~ret.done
  /\ \E c \in RemoveCalls : \E order \in GlobOrders((DOMAIN modelStore) \ {c.model_name}) :
       Leaves(c, model_remove_command(home, globalFile, modelStore, swapFile, c, order),
              <<>>)

ModelList ==
  /\ ~ret.done
  /\ \E order \in GlobOrders(DOMAIN modelStore) :
       LET printed == model_list_command(home, globalFile, modelStore, order)
       IN Leaves([op |-> "model_list"],
                 After(printed.raised, home, globalFile, modelStore, swapFile),
                 printed.value)

SaveLlamaSwapConfig ==
  /\ ~ret.done
  /\ \E order \in GlobOrders(DOMAIN modelStore) :
       LET saved == save_llama_swap_config(home, globalFile, modelStore, swapFile, order)
       IN Leaves([op |-> "save_llama_swap_config"],
                 IF saved.raised # "none"
                   THEN After(saved.raised, home, globalFile, modelStore, swapFile)
                   ELSE After("none", saved.value.home, globalFile, modelStore,
                              saved.value.swapFile),
                 <<>>)

NextS ==
  \/ ModelAdd
  \/ ModelCopy
  \/ ModelRemove
  \/ ModelList
  \/ SaveLlamaSwapConfig

SpecS == InitS /\ [][NextS]_vars

\* ------------------------------------------- commands run one after another
\* The number of commands run in a row.
MaxRuns == 3

RunAddCalls ==
  {[op |-> "model_add", hf_spec |-> "repo:m1", alias |-> a, set |-> <<>>,
    gpu |-> "off", remote |-> "unlisted"] : a \in {"", "my m", "x/y"}}
RunCopyCalls ==
  {[op |-> "model_copy", source_model |-> src, new_model_name |-> new] :
     src \in {"m1", "my m"}, new \in {"m2", "my_m"}}
RunRemoveCalls ==
  {[op |-> "model_remove", model_name |-> n] : n \in {"m1", "m2", "my_m"}}

\* llamate init has run (cli/commands/init.py, lines 26-54): LLAMATE_HOME and
\* MODELS_DIR exist, the settings file may, and there is no model.
InitQ ==
  /\ ServeIdle
  /\ home = "models"
  /\ globalFile \in {{}, {BaseSettings}}
  /\ modelStore = EmptyDict
  /\ swapFile = {}
  /\ call = NoCall
  /\ ret = NotDone
  /\ runs = 0

AddRun ==
  /\ runs < MaxRuns
  /\ \E c \in RunAddCalls :
       Leaves(c, model_add_command(home, globalFile, modelStore, swapFile, c), <<>>)

CopyRun ==
  /\ runs < MaxRuns
  /\ \E c \in RunCopyCalls : \E order \in GlobOrders(NamesAfterCopy(c)) :
       Leaves(c, model_copy_command(home, globalFile, modelStore, swapFile, c, order),
              <<>>)

RemoveRun ==
  /\ runs < MaxRuns
  /\ \E c \in RunRemoveCalls :
       \E order \in GlobOrders((DOMAIN modelStore) \ {c.model_name}) :
         Leaves(c, model_remove_command(home, globalFile, modelStore, swapFile, c, order),
                <<>>)

NextQ ==
  \/ AddRun
  \/ CopyRun
  \/ RemoveRun

SpecQ == InitQ /\ [][NextQ]_vars

\* ================================================================ claims
\* Positions inside terminate_process.
TpPcs == {"tp_signal", "tp_wait", "tp_kill", "tp_wait2", "tp_return"}

\* This step is a poll of Watcher i that ran to its end without an exception.
PollDone(i) == pc[i] = "sleep" /\ w_msg'[i] \notin {"none", "error"}

\* This step is a poll of Watcher i that ends in a call of terminate_process.
Requests(i) == termReqs'[i] = termReqs[i] + 1 /\ pc'[i] = "tp_signal"

\* C1: a child ended by the SIGTERM of a Watcher's terminate_process never
\* stops the serve loop, whichever status it reports for that SIGTERM (143 or
\* killed-by-signal 15): the loop is never left as fatal with such a status.
C1_SigtermExitIsExpected ==
  supExit = "fatal" => \A rc \in reported : rc \notin SigtermStatuses

\* C2: the Supervisor spawns a child only at the initial start or after the
\* Watcher of the previous child requested its termination; a child that
\* exited by itself is not followed by another spawn.
C2_SpawnOnlyAfterWatcherSignal ==
  [][(pc["sup"] = "top" /\ pc'["sup"] = "wait")
       => (process = "unbound" \/ termReqs[process] >= 1)]_vars

\* C3: when the child exited with a status that is neither 0 nor a status of a
\* SIGTERM-terminated child, the Supervisor's check leaves the loop and reports
\* that status; once the loop is left as fatal no child is spawned any more.
C3_OtherExitIsFatal ==
  [][/\ (/\ pc["sup"] = "check" /\ pc'["sup"] # "check"
         /\ \E rc \in status[process] : rc # 0 /\ rc \notin SigtermStatuses)
        => (/\ pc'["sup"] = "done" /\ supExit' = "fatal"
            /\ reported' = status[process])
     /\ supExit = "fatal"
        => (/\ supExit' = "fatal" /\ pc'["sup"] = "done"
            /\ process' = process /\ child' = child
            /\ \A p \in Slots : child[p] # "running")]_vars

C3_Witness ==
  /\ supExit = "fatal" /\ pc["sup"] = "done"
  /\ reported \in {{1}, {KilledBySIGKILL}}
  /\ child["old"] = "exited"

\* C4: a run of monitor_config_files requests termination at most once: the
\* poll that detects a change sets the baseline to what it saw, calls
\* terminate_process once, and after that the thread only finishes that call
\* and returns, with no further poll, whatever happens on disk.
C4_WatcherSingleShot ==
  [][\A i \in Slots :
       /\ termReqs'[i] <= 1
       /\ (termReqs[i] = 1 /\ termReqs'[i] = 1)
            => pc'[i] \in TpPcs \cup {"returned", "ended"}
       /\ (pc[i] = "sleep" /\ Requests(i))
            => \/ w_msg'[i] \in {"created", "changed"}
                  /\ main_config_time'[i] = mainFile
               \/ w_msg'[i] = "model_changed"
                  /\ \E f \in ModelNames :
                       /\ ModelChanged(model_files[i][f], files[f])
                       /\ model_files'[i][f] = files[f]
               \/ w_msg'[i] = "model_deleted"
                  /\ model_files'[i] = files]_vars

C4_Witness ==
  /\ pc["cur"] = "returned" /\ termReqs["cur"] = 1
  /\ fsOps = MaxFsOps

\* C5: a poll that finds the main config file present while the baseline has
\* it absent, or present with another modification time than the baseline's,
\* requests termination of the child in that poll.
C5_MainChangeDetected ==
  [][\A i \in Slots :
       (/\ PollDone(i)
        /\ mainFile # {}
        /\ main_config_time[i] # mainFile)
         => Requests(i)]_vars

C5_Witness ==
  /\ pc["cur"] = "tp_signal"
  /\ w_msg["cur"] = "changed"
  /\ mainFile = {0}

\* C6: a poll that finds in the models directory a *.yaml file that is not in
\* the baseline, or has another modification time than the baseline's,
\* requests termination in that poll, whatever the state of the main file.
C6_ModelChangeDetected ==
  [][\A i \in Slots :
       (/\ PollDone(i)
        /\ dirExists
        /\ \E f \in ModelNames : ModelChanged(model_files[i][f], files[f]))
         => Requests(i)]_vars

\* C7: a poll that finds a per-model file of the baseline no longer on disk
\* requests termination in that poll, however the file disappeared, the
\* models directory being gone included.
C7_ModelDeletionDetected ==
  [][\A i \in Slots :
       (/\ PollDone(i)
        /\ \E f \in ModelNames : model_files[i][f] # {} /\ files[f] = {})
         => Requests(i)]_vars

\* C8: a poll that finds the main config file absent while the baseline has it
\* present requests no termination; it records the file as absent and the
\* Watcher keeps polling.
C8_MainDeletionWaits ==
  [][\A i \in Slots :
       (/\ PollDone(i)
        /\ main_config_time[i] # {}
        /\ mainFile = {})
         => (/\ termReqs'[i] = termReqs[i]
             /\ main_config_time'[i] = {}
             /\ pc'[i] = "loop")]_vars

\* The calls of a terminate_process that has returned.
CompleteRuns ==
  {<<"sigterm", "wait5">>}
  \cup {<<"sigterm", "wait5_timeout", "kill", w>> : w \in {"wait2", "wait2_timeout"}}
  \cup {<<"sigterm_raised", "kill", w>> : w \in {"wait2", "wait2_timeout"}}

IsPrefix(a, b) == Len(a) <= Len(b) /\ SubSeq(b, 1, Len(a)) = a

\* C9: terminate_process sends SIGTERM first and waits once; only when that
\* signal or wait fails does it force-kill and wait once more; it makes no
\* other call, never force-kills after a graceful wait that returned, and
\* returns in every case.
C9_TerminateEscalates ==
  \A t \in Threads :
    /\ pc[t] \in TpPcs => \E r \in CompleteRuns : IsPrefix(tp_log[t], r)
    /\ pc[t] = "tp_return" => tp_log[t] \in CompleteRuns
    /\ pc[t] = "tp_wait" => tp_log[t] \in {<<"sigterm">>}
    /\ pc[t] = "tp_wait2" => tp_log[t][Len(tp_log[t])] = "kill"

C9_Witness ==
  \E t \in Slots :
    /\ pc[t] = "tp_return"
    /\ tp_log[t] = <<"sigterm", "wait5_timeout", "kill", "wait2">>

\* C10: no change of a per-model file is absorbed into a fresh baseline: when a
\* Watcher captures its baseline, the document its child was started from was
\* rendered after every change made to the per-model files.
C10_NoChangeAbsorbed ==
  [][\A i \in Slots : (pc[i] = "init" /\ pc'[i] = "loop") => ~dirty]_vars

\* ----------------------------------------------------- the renderer
\* generate_config has returned a document.
Rendered == call.op = "generate_config" /\ ret.done /\ ret.raised = "none"

\* The settings generate_config read.
SettingsRead == load_global_config(globalFile)

\* The string s contains the string sub.
Contains(s, sub) ==
  \E i \in 1..(Len(s) - Len(sub) + 1) : SubSeq(s, i, i + Len(sub) - 1) = sub

\* The cmd rendered for the i-th model of the call.
CmdOf(i) == ret.value["models"][call.model_configs[i][1]]["cmd"]

\* C11: the document generate_config returns always has a groups key: a copy
\* of the settings' groups when they have one, an empty map otherwise.
C11_GroupsAlwaysPresent ==
  Rendered =>
    /\ "groups" \in DOMAIN ret.value
    /\ ret.value["groups"] = IF "groups" \in DOMAIN SettingsRead
                               THEN SettingsRead["groups"] ELSE EmptyDict

\* C12: the document has a models key only when a model was given: none for
\* the empty model set, and for a model set exactly its names as keys.
C12_ModelsKeyIffModels ==
  Rendered =>
    IF call.model_configs = <<>>
      THEN "models" \notin DOMAIN ret.value
      ELSE /\ "models" \in DOMAIN ret.value
           /\ DOMAIN ret.value["models"] = OrderedKeys(call.model_configs)

C12_Witness ==
  /\ Rendered
  /\ Len(call.model_configs) = 2
  /\ DOMAIN ret.value["models"] = ModelNames

\* C13: for every args entry but proxy, the cmd has --key alone when the
\* value is the string "true" and --key value otherwise; proxy gives no
\* fragment.
C13_BooleanFlagRule ==
  Rendered =>
    \A i \in DOMAIN call.model_configs :
      LET args == call.model_configs[i][2]["args"] IN
      \A j \in DOMAIN args :
        LET key == args[j][1]
            value == args[j][2]
        IN IF key = "proxy" THEN ~Contains(CmdOf(i), "--proxy")
           ELSE IF value = "true"
             THEN /\ Contains(CmdOf(i), "--" \o key)
                  /\ ~Contains(CmdOf(i), "--" \o key \o " true")
           ELSE Contains(CmdOf(i), "--" \o key \o " " \o value)

C13_Witness ==
  /\ Rendered
  /\ \E i \in DOMAIN call.model_configs :
       call.model_configs[i][2]["args"] =
         <<<<"flash-attn", "true">>, <<"ctx-size", "4096">>>>

\* The proxy URL a model record declares: its own field, else the one in args.
DeclaredProxy(mc) ==
  IF "proxy" \in DOMAIN mc THEN {mc["proxy"]}
  ELSE IF "proxy" \in OrderedKeys(mc["args"]) THEN {ValueOf(mc["args"], "proxy")}
  ELSE {}

\* The port of a URL scheme://host:port.
PortOf(url) ==
  LET colon == CHOOSE i \in 1..Len(url) :
                 /\ SubSeq(url, i, i) = ":"
                 /\ \A j \in (i + 1)..Len(url) : SubSeq(url, j, j) # ":"
  IN SubSeq(url, colon + 1, Len(url))

\* C14: for a model record that declares a proxy URL with a port, the cmd
\* contains --port <port> with the port of that URL, and the URL is the proxy
\* field of the model's entry.
C14_ProxyPortInCmd ==
  Rendered =>
    \A i \in DOMAIN call.model_configs :
      \A url \in DeclaredProxy(call.model_configs[i][2]) :
        /\ Contains(CmdOf(i), "--port " \o PortOf(url))
        /\ ret.value["models"][call.model_configs[i][1]]["proxy"] = url

\* The binary, the model option and the fragments of a model, in this order.
CmdFragments(mc) ==
  <<SettingsRead["llama_server_path"],
    "--model " \o SettingsRead["ggufs_storage_path"] \o "/" \o mc["hf_file"]>>
  \o ArgParts(mc["args"])

\* The settings and the model of the scenario "add then render".
AddThenRender ==
  /\ globalFile = {[llama_server_path |-> "/bin/server", ggufs_storage_path |-> "/data"]}
  /\ call.op = "generate_config"
  /\ Len(call.model_configs) = 1
  /\ call.model_configs[1][2] =
       [hf_repo |-> "org/repo", hf_file |-> "m1.gguf",
        args |-> <<<<"ctx-size", "4096">>>>]

\* C15: the cmd of a model is the binary, --model <storage>/<file> and one
\* fragment per argument other than proxy, joined by single spaces with
\* nothing after the last: the scenario gives
\* /bin/server --model /data/m1.gguf --ctx-size 4096.
C15_CmdJoinedBySpaces ==
  Rendered =>
    /\ \A i \in DOMAIN call.model_configs :
         CmdOf(i) = Join(" ", CmdFragments(call.model_configs[i][2]))
    /\ AddThenRender =>
         CmdOf(1) = "/bin/server --model /data/m1.gguf --ctx-size 4096"

\* C15 as amended: the same fragments in the same order, one per line, every
\* line ended by a newline: the scenario gives
\* /bin/server\n--model /data/m1.gguf\n--ctx-size 4096\n.
C15_CmdOneFragmentPerLine ==
  Rendered =>
    /\ \A i \in DOMAIN call.model_configs :
         CmdOf(i) = Join("", [k \in DOMAIN CmdFragments(call.model_configs[i][2]) |->
                                CmdFragments(call.model_configs[i][2])[k] \o "\n"])
    /\ AddThenRender =>
         CmdOf(1) = "/bin/server\n--model /data/m1.gguf\n--ctx-size 4096\n"

C15_Witness == Rendered /\ AddThenRender

\* The orders a sequence of distinct elements can be put in.
Orders(seq) ==
  {t \in [DOMAIN seq -> {seq[i] : i \in DOMAIN seq}] :
     \A i, j \in DOMAIN seq : i # j => t[i] # t[j]}

\* The models mappings with the same records as mcs, iterated in another
\* order, the args of each record too.
Reorderings(mcs) ==
  LET Variants(pair) ==
        {<<pair[1], [pair[2] EXCEPT !["args"] = a]>> : a \in Orders(pair[2]["args"])}
  IN UNION {{m2 \in [DOMAIN p -> UNION {Variants(p[i]) : i \in DOMAIN p}] :
               \A i \in DOMAIN p : m2[i] \in Variants(p[i])} :
            p \in Orders(mcs)}

\* C16: generate_config returns equal documents whatever the iteration order
\* of the models mapping and of the args of each model.
C16_OrderIndependent ==
  Rendered =>
    \A m2 \in Reorderings(call.model_configs) :
      generate_config(SettingsRead, m2).value = ret.value

ValidNames ==
  {n \in DOMAIN modelStore :
     /\ modelStore[n].parses
     /\ {"hf_repo", "hf_file"} \subseteq DOMAIN modelStore[n].data}

\* C17: with a record that does not parse or lacks a required field next to
\* valid ones, model list and save_llama_swap_config complete and cover
\* every valid record, skipping only the bad one.
C17_BadRecordSkipped ==
  (ret.done /\ home = "models") =>
    /\ call.op = "model_list" =>
         /\ ret.raised = "none"
         /\ {ret.value[i].name : i \in DOMAIN ret.value} = ValidNames
    /\ call.op = "save_llama_swap_config" =>
         /\ ret.raised = "none"
         /\ ValidNames # {} =>
              \E doc \in swapFile :
                "models" \in DOMAIN doc /\ DOMAIN doc["models"] = ValidNames

\* C19: a model add that fails with a validation error has written no model
\* record and no alias: the model store and the settings are as before.
C19_ValidationFailureWritesNothing ==
  [][(~ret.done /\ ret'.done /\ call'.op = "model_add"
      /\ ret'.raised \in {"InvalidInputError", "InvalidAliasError"}) =>
       /\ modelStore' = modelStore
       /\ globalFile' = globalFile]_vars

\* The name the source of a copy resolves to, if any: a record of that name,
\* else the model an alias of that name stands for.
ResolvedSource(c) ==
  IF c.source_model \in DOMAIN modelStore THEN {c.source_model}
  ELSE {load_global_config(globalFile)["aliases"][a] :
          a \in {c.source_model} \cap DOMAIN AliasesOf(load_global_config(globalFile))}

\* The new name of a copy may be written.
CopyAllowed(c) ==
  /\ ResolvedSource(c) # {}
  /\ validate_model_name(c.new_model_name).raised = "none"
  /\ LET new == validate_model_name(c.new_model_name).value
     IN /\ new \notin ResolvedSource(c)
        /\ new \notin DOMAIN modelStore
        /\ new \notin DOMAIN AliasesOf(load_global_config(globalFile))

\* C20: model copy writes the new record only when the new name differs from
\* the resolved source name, is not the name of a record and is not an alias;
\* otherwise, and when the source does not resolve, it writes no record and
\* exits with status 1; it never overwrites a record.
C20_CopyGuards ==
  [][(~ret.done /\ ret'.done /\ call'.op = "model_copy") =>
       /\ \A n \in DOMAIN modelStore :
            n \in DOMAIN modelStore' /\ modelStore'[n] = modelStore[n]
       /\ modelStore' # modelStore =>
            /\ CopyAllowed(call')
            /\ DOMAIN modelStore' =
                 (DOMAIN modelStore) \cup {validate_model_name(call'.new_model_name).value}
       /\ ~CopyAllowed(call') => modelStore' = modelStore /\ ret'.exit = 1]_vars

C20_Witness ==
  /\ ret.done /\ call.op = "model_copy" /\ ret.raised = "none"
  /\ call.source_model = "x" /\ call.new_model_name = "new one"
  /\ {"m1", "new_one"} \subseteq DOMAIN modelStore
  /\ modelStore["new_one"] = modelStore["m1"]

\* ------------------------------------------------------- the serve loop
\* serve_command passes line 196: Popen has started a child.
SpawnStep == pc["sup"] = "top" /\ pc'["sup"] = "wait"

Alive == {p \in Slots : child[p] = "running"}

\* C22: at most one child of serve_command is alive at any time: a child is
\* spawned only after the wait on the child before it has returned.
C22_AtMostOneChildAlive ==
  [][/\ Cardinality(Alive') <= 1
     /\ SpawnStep => \/ process = "unbound"
                     \/ child[process] = "exited" /\ reaped[process]]_vars

C22_Witness ==
  /\ child["old"] = "exited" /\ reaped["old"]
  /\ child["cur"] = "running"
  /\ pc["old"] = "tp_wait"

\* C23: on a restart the document is re-rendered after the old child has
\* exited and before the new one is spawned; a re-render that raises is only
\* a warning: the loop goes on, and the spawn that follows leaves a document
\* that is on disk and parseable as it is.
C23_RerenderBeforeRestart ==
  [][/\ (pc["sup"] = "check" /\ pc'["sup"] # "check") =>
          pc'["sup"] \in {"rerender", "done"}
     /\ (pc'["sup"] = "top" /\ pc["sup"] # "top") =>
          pc["sup"] \in {"start", "rerender"}
     /\ pc["sup"] = "rerender" =>
          /\ child[process] = "exited"
          /\ pc'["sup"] \in {"rerender", "top"}
          /\ supExit' = "none"
     /\ (SpawnStep /\ mainFile # {} /\ docState # "invalid") =>
          mainFile' = mainFile /\ docState' = docState]_vars

C23_Witness ==
  /\ pc["sup"] = "wait" /\ child["cur"] = "running" /\ child["old"] = "exited"
  /\ dirty /\ files["a"] # {}
  /\ mainFile # {} /\ docState = "rendered"

\* C24: whenever serve_command spawns a child the document file exists,
\* whatever the model store and the settings hold.
C24_DocumentExistsAtSpawn ==
  [][SpawnStep => mainFile' # {}]_vars

\* A Watcher thread ends a poll: it goes back to the loop condition or into
\* terminate_process.
Polls(i) == pc[i] = "sleep" /\ pc'[i] \in {"loop", "tp_signal"}

\* C26: once the stop signal of a Watcher is set, the Watcher polls no more
\* and requests no termination; it never signals or kills a child the
\* Supervisor has reaped, and does nothing once the next child is spawned.
C26_StoppedWatcherIsQuiet ==
  [][~SpawnStep =>
       \A i \in Slots :
         /\ stop_event[i] => ~Polls(i) /\ termReqs'[i] = termReqs[i]
         /\ reaped[i] => ~(pc[i] \in {"tp_signal", "tp_kill"} /\ pc'[i] # pc[i])
         /\ i = "old" => (pc[i] = pc'[i] \/ pc'[i] \in {"stopped", "ended"})]_vars

\* C27: only the Supervisor signals, waits on or kills the child: a Watcher
\* thread makes no call on the process handle.
C27_WatcherLeavesHandleAlone ==
  \A i \in Slots : pc[i] \notin TpPcs /\ tp_log[i] = <<>>

\* C28: on an interrupt the Supervisor calls terminate_process on a child that
\* is still running and then leaves the loop; no child is spawned after an
\* interrupt.
C28_InterruptStopsServe ==
  [][/\ (supExit = "none" /\ supExit' = "interrupt") =>
          IF process # "unbound" /\ child[process] = "running"
            THEN pc'["sup"] = "tp_signal"
            ELSE pc'["sup"] = "done"
     /\ supExit = "interrupt" =>
          /\ supExit' = "interrupt"
          /\ pc'["sup"] \in TpPcs \cup {"done"}
          /\ \A p \in Slots : child'[p] = "running" => child[p] = "running"
          /\ (pc["sup"] # "done" /\ pc'["sup"] = "done") =>
               pc["sup"] = "tp_return" /\ tp_log["sup"] # <<>>]_vars

C28_Witness ==
  /\ supExit = "interrupt" /\ pc["sup"] = "tp_return"
  /\ tp_log["sup"] = <<"sigterm", "wait5">>
  /\ child[process] = "exited"

\* C29: an error raised in a Watcher run, while the baseline is captured or
\* in a poll, never ends the thread: no termination is requested, the
\* baseline stays, and the Watcher is back at its loop.
C29_WatcherSurvivesErrors ==
  [][\A i \in Slots :
       /\ pc'[i] # "crashed"
       /\ (pc[i] = "sleep" /\ w_msg'[i] = "error") =>
            /\ pc'[i] = "loop"
            /\ termReqs'[i] = termReqs[i]
            /\ main_config_time'[i] = main_config_time[i]
            /\ model_files'[i] = model_files[i]]_vars

\* C30: a poll that finds the main file and the per-model files as the
\* baseline has them requests no termination, whatever the modification
\* times are, 0 included.
C30_NoSpuriousRestart ==
  [][\A i \in Slots :
       (/\ pc[i] = "sleep"
        /\ main_config_time[i] = mainFile
        /\ model_files[i] = (IF dirExists THEN files ELSE NoModels)) =>
         termReqs'[i] = termReqs[i]]_vars


\* The aliases the settings file holds.
AliasesOnDisk == AliasesOf(load_global_config(globalFile))

\* C21: after any sequence of model add, model copy and model remove run one
\* at a time from an initialised empty store, every alias of the settings
\* points at a model whose record is in the model store.
C21_AliasesPointAtRecords ==
  \A a \in DOMAIN AliasesOnDisk : AliasesOnDisk[a] \in DOMAIN modelStore

\* model remove has just deleted a model together with the alias that pointed
\* at it, while another model is still there.
C21_Witness ==
  /\ ret.done /\ ret.raised = "none"
  /\ call = [op |-> "model_remove", model_name |-> "my_m"]
  /\ "my_m" \notin DOMAIN modelStore
  /\ "aliases" \in UNION {DOMAIN f : f \in globalFile}
  /\ AliasesOnDisk = EmptyDict
  /\ modelStore # EmptyDict

\* What generate_config makes of the settings and records now on disk, for
\* each order the files can be found in.
DocumentsOfDisk ==
  {generate_config(load_global_config(globalFile),
                   LoadAll(modelStore, order, <<>>).value).value :
     order \in {o \in GlobOrders(DOMAIN modelStore) :
                  LoadAll(modelStore, o, <<>>).raised = "none"}}

\* C25: once save_llama_swap_config has returned, alone or as the last write
\* of model remove, the document file holds what generate_config makes of
\* the records on disk.
C25_DocumentRegenerated ==
  [][(/\ ret'.done /\ ret'.raised = "none"
      /\ \/ call'.op = "save_llama_swap_config"
         \/ call'.op = "model_remove" /\ call'.model_name \in DOMAIN modelStore)
     => \A document \in swapFile' : document \in DocumentsOfDisk']_vars

====
